---- MODULE Spec2Model ----
(***************************************************************************)
(* C-Sentinel: the network probe (src/src/net_probe.c) and the command     *)
(* line driver (src/src/main.c).                                           *)
(*                                                                         *)
(* Spec      : one call of probe_network, step by step, against a /proc    *)
(*             whose socket tables are produced line by line and whose     *)
(*             process table changes under the scan.                       *)
(* SpecMain  : main() in one-shot and watch mode with the asynchronous     *)
(*             signal handler.                                             *)
(*                                                                         *)
(* sentinel.h is not among the sources: the two array capacities are       *)
(* scaled down, and the exit codes are the ones print_usage documents.     *)
(***************************************************************************)
EXTENDS Integers, Sequences, FiniteSets, TLC

\* ------------------------------------------------------------------ bounds

\* capacity of network_info_t.listeners / .connections (scaled down)
MAX_LISTENERS == 1
MAX_CONNECTIONS == 1
\* socket records one source yields after its header
MaxLines == 1
\* probe cycles the watch loop starts
MaxCycles == 2
\* the largest unusual-port count a probe hands to the analysis
MaxUnusual == 4

\* ----------------------------------------------------------- net_probe.c

\* common_ports[], with its 0 sentinel (1-based here)
common_ports ==
    <<22, 25, 53, 80, 110, 143, 443, 465, 587, 993, 995,
      3306, 5432, 6379, 8080, 8443, 27017, 0>>

RECURSIVE CommonLoop(_, _)
\* the for loop of is_common_port from index i, then the ephemeral test
CommonLoop(i, port) ==
    IF common_ports[i] # 0
    THEN IF common_ports[i] = port THEN 1 ELSE CommonLoop(i + 1, port)
    ELSE IF port >= 32768 THEN 1 ELSE 0

\* a bug: the ephemeral range test is strict and starts one port late
is_common_port_strict(port) ==
    IF \E i \in 1..17 : common_ports[i] = port THEN 1
    ELSE IF (port % 65536) > 32768 THEN 1 ELSE 0

\* is_common_port(uint16_t port): the argument is converted to 16 bits
is_common_port(port) == CommonLoop(1, port % 65536)

\* hex_to_ip, on the value of the hex text: IPv4 prints the four octets least
\* significant byte first, IPv6 passes the text through (a 1-tuple here)
hex_to_ip(hex, is_ipv6) ==
    IF is_ipv6 THEN <<hex>>
    ELSE <<hex % 256, (hex \div 256) % 256,
           (hex \div 65536) % 256, (hex \div 16777216) % 256>>

\* tcp_state_name
tcp_state_name(state) ==
    IF state >= 0 /\ state <= 11
    THEN <<"UNKNOWN", "ESTABLISHED", "SYN_SENT", "SYN_RECV", "FIN_WAIT1",
           "FIN_WAIT2", "TIME_WAIT", "CLOSE", "CLOSE_WAIT", "LAST_ACK",
           "LISTEN", "CLOSING">>[state + 1]
    ELSE "UNKNOWN"

\* the four calls of probe_network, in program order
Sources ==
    <<[file |-> "/proc/net/tcp",  udp |-> FALSE, is_ipv6 |-> FALSE],
      [file |-> "/proc/net/tcp6", udp |-> FALSE, is_ipv6 |-> TRUE],
      [file |-> "/proc/net/udp",  udp |-> TRUE,  is_ipv6 |-> FALSE],
      [file |-> "/proc/net/udp6", udp |-> TRUE,  is_ipv6 |-> TRUE]>>

\* the protocol tag snprintf writes
ProtocolTag(s) ==
    IF Sources[s].udp
    THEN (IF Sources[s].is_ipv6 THEN "udp6" ELSE "udp")
    ELSE (IF Sources[s].is_ipv6 THEN "tcp6" ELSE "tcp")

\* ------------------------------------------------- the environment: /proc

\* local and remote address of every record: 0100007F
AddrHex == 16777343
\* remote port of every record
RemotePort == 443
\* the socket inode the records carry
SockInode == 12345

\* a line sscanf does not convert into its six fields
BadLine ==
    [parsed |-> FALSE, local_port |-> 0, state |-> 0, inode |-> 0]

\* a line sscanf converts: its local port, state and inode columns
Rec(port, st) ==
    [parsed |-> TRUE, local_port |-> port, state |-> st, inode |-> SockInode]

\* what fgets can return after the header: LISTEN (10) on a well known, an
\* unusual and the first ephemeral port, ESTABLISHED (1) with and without a
\* local port, CLOSE (7, for UDP: unconnected) without a local port
Lines ==
    {BadLine, Rec(22, 10), Rec(9999, 10), Rec(32768, 10),
     Rec(9999, 1), Rec(0, 1), Rec(0, 7)}

\* the records of the lookup races: one listener, one connection
RaceLines == {Rec(9999, 10), Rec(9999, 1)}

\* no record in hand
NoLine == [parsed |-> FALSE, local_port |-> 0, state |-> 0, inode |-> -1]

\* One entry of the /proc directory. fds are the targets readlink yields for
\* the entries of /proc/<pid>/fd: n > 0 is "socket:[n]", 0 is any other
\* target, -1 is an entry readlink fails on (".", "..", a closed descriptor).
DirEntry(nm, p, c, fdok, commok, f) ==
    [numeric |-> nm, pid |-> p, comm |-> c, fd_ok |-> fdok,
     comm_ok |-> commok, alive |-> TRUE, fds |-> f]

\* "self": not a pid directory, though its fd directory names the socket
SelfEntry == DirEntry(FALSE, 0, "sentinel", TRUE, TRUE, <<SockInode>>)

\* the process tables the probe is run against, in readdir order
ProcTables ==
    { \* two owners: the first in directory order wins
      <<SelfEntry,
        DirEntry(TRUE, 500, "envoy", TRUE, TRUE, <<0, SockInode>>),
        DirEntry(TRUE, 600, "sshd", TRUE, TRUE, <<SockInode>>)>>,
      \* the first process holds other descriptors only
      <<SelfEntry,
        DirEntry(TRUE, 500, "envoy", TRUE, TRUE, <<-1, 777>>),
        DirEntry(TRUE, 600, "sshd", TRUE, TRUE, <<SockInode>>)>>,
      \* descriptors of 500 unreadable, name of 600 unreadable
      <<SelfEntry,
        DirEntry(TRUE, 500, "envoy", FALSE, TRUE, <<SockInode>>),
        DirEntry(TRUE, 600, "sshd", TRUE, FALSE, <<SockInode>>)>>,
      \* nobody holds the socket
      <<SelfEntry,
        DirEntry(TRUE, 500, "envoy", TRUE, TRUE, <<0>>),
        DirEntry(TRUE, 600, "sshd", TRUE, TRUE, <<>>)>> }

\* ------------------------------------------------------------------ state

VARIABLES
    pc,         \* position in probe_network and its callees
    src,        \* index in Sources of the file being parsed
    nread,      \* records fgets has returned from the current file
    cur,        \* the line fgets returned last (NoLine: none in hand)
    net,        \* network_info_t
    errors,     \* history: the parse_*_file calls that returned -1
    ret,        \* return value of probe_network
    procs,      \* the /proc directory
    pi,         \* find_pid_for_inode: index of the /proc entry in hand
    fi,         \* find_pid_for_inode: index of the fd entry in hand
    pid,        \* the value find_pid_for_inode returned
    snap,       \* history: procs when the running lookup started
    obsL,       \* history: listener records the sources have yielded
    obsC,       \* history: ESTABLISHED records the TCP sources have yielded
    attempted,  \* history: the sources fopen was called on, in order
    feed        \* the lines the socket tables can yield in this run

probevars ==
    <<pc, src, nread, cur, net, errors, ret, procs, pi, fi, pid, snap,
      obsL, obsC, attempted, feed>>

VARIABLES
    mpc,          \* position in main and run_analysis
    opt,          \* main's option flags after getopt_long
    keep_running, \* the global flag the signal handler clears
    fp,           \* fingerprint_t, as far as run_analysis reads it
    analysis,     \* quick_analysis_t
    exit_code,    \* what the last run_analysis returned
    worst_exit,   \* main's worst_exit
    exit_status,  \* what main returned
    cycles,       \* history: run_analysis calls of the watch loop
    printed,      \* history: status lines the watch loop printed
    slept,        \* history: sleep calls of the watch loop
    sig,          \* history: cycles and slept when a signal first came
                  \* during run_analysis (<<>>: none did)
    seen,         \* history: the values run_analysis returned
    serialized,   \* history: the last run_analysis printed its output
    disposition,  \* what the process does with SIGINT and with SIGTERM
    sysv_signal   \* the build: signal() installs a handler that the
                  \* kernel resets to SIG_DFL when it is delivered (glibc
                  \* under -std=c99 without a feature macro), or one that
                  \* stays (gcc's default dialect, _DEFAULT_SOURCE)

\* the signal dispositions and what the build makes of signal()
sigvars == <<disposition, sysv_signal>>

mainvars ==
    <<mpc, opt, keep_running, fp, analysis, exit_code, worst_exit,
      exit_status, cycles, printed, slept, sig, seen, serialized, sigvars>>

\* the signals main installs signal_handler for
Signals == {"SIGINT", "SIGTERM"}

\* the flags of main before getopt_long has seen an option
NoOptions ==
    [watch_mode |-> FALSE, network_mode |-> FALSE,
     json_mode |-> FALSE, quick_mode |-> FALSE]

vars == <<probevars, mainvars>>

\* a call that has not returned has no value; one that has, <<value>>
NotReturned == <<>>

\* memset(net, 0, sizeof(network_info_t))
ZeroNet ==
    [listeners |-> <<>>, listener_count |-> 0,
     connections |-> <<>>, connection_count |-> 0,
     total_listening |-> 0, total_established |-> 0,
     unusual_port_count |-> 0]

\* what the caller's structure may hold before the probe: an earlier,
\* full result
StaleNet ==
    [listeners |-> [i \in 1..MAX_LISTENERS |->
                      [protocol |-> "tcp", local_addr |-> <<0, 0, 0, 0>>,
                       local_port |-> 9999, state |-> "LISTEN", pid |-> 0,
                       process_name |-> "[kernel]"]],
     listener_count |-> MAX_LISTENERS,
     connections |-> <<>>, connection_count |-> 0,
     total_listening |-> MAX_LISTENERS, total_established |-> 0,
     unusual_port_count |-> MAX_LISTENERS]

\* main has not called anything yet
MainIdle ==
    /\ mpc = "getopt"
    /\ keep_running = 1
    /\ fp = [probe_errors |-> 0, unusual_port_count |-> 0]
    /\ analysis = [zombie_process_count |-> 0, high_fd_process_count |-> 0,
                   config_permission_issues |-> 0, unusual_listeners |-> 0]
    /\ exit_code = 0
    /\ worst_exit = 0
    /\ exit_status = NotReturned
    /\ cycles = 0
    /\ printed = 0
    /\ slept = 0
    /\ sig = <<>>
    /\ seen = {}
    /\ serialized = FALSE

InitWith(f) ==
    /\ MainIdle
    /\ opt = [watch_mode |-> FALSE, network_mode |-> TRUE,
              json_mode |-> FALSE, quick_mode |-> TRUE]
    /\ pc = "start"
    /\ src = 1
    /\ nread = 0
    /\ cur = NoLine
    /\ net \in {ZeroNet, StaleNet}
    /\ errors = 0
    /\ ret = NotReturned
    /\ procs \in ProcTables
    /\ pi = 0
    /\ fi = 0
    /\ pid = 0
    /\ snap = <<>>
    /\ obsL = 0
    /\ obsC = 0
    /\ attempted = <<>>
    /\ feed = f
    /\ disposition = [s \in Signals |-> "SIG_DFL"]
    /\ sysv_signal = FALSE

Init == InitWith(Lines)

\* ------------------------------------------------------- probe_network

\* probe_network: memset, then the first parse call
ProbeStart ==
    /\ pc = "start"
    /\ net' = ZeroNet
    /\ src' = 1
    /\ pc' = "open"
    /\ UNCHANGED <<nread, cur, errors, ret, procs, pi, fi, pid, snap,
                   obsL, obsC, attempted, feed>>
    /\ UNCHANGED mainvars

\* a bug: a failing source ends the probe
AfterParseAbort(s, code) ==
    IF s < 4 /\ code = 0
    THEN /\ src' = s + 1
         /\ pc' = "open"
         /\ ret' = ret
    ELSE /\ src' = s
         /\ pc' = "done"
         /\ ret' = <<code>>

\* parse_*_file returns code to probe_network, which discards it and goes
\* on to its next call, or returns 0 after the fourth
AfterParse(s, code) ==
    IF s < 4
    THEN /\ src' = s + 1
         /\ pc' = "open"
         /\ ret' = ret
    ELSE /\ src' = s
         /\ pc' = "done"
         /\ ret' = <<0>>

\* return code from the running parse_tcp_file / parse_udp_file
ParseReturn(code) ==
    /\ errors' = IF code # 0 THEN errors + 1 ELSE errors
    /\ AfterParse(src, code)
    /\ nread' = 0
    /\ cur' = NoLine

\* fopen(filename, "r"): NULL returns -1
OpenSource ==
    /\ pc = "open"
    /\ attempted' = Append(attempted, src)
    /\ \/ /\ ParseReturn(-1)
          /\ UNCHANGED net
       \/ /\ pc' = "header"
          /\ UNCHANGED <<src, nread, cur, net, errors, ret>>
    /\ UNCHANGED <<procs, pi, fi, pid, snap, obsL, obsC, feed>>
    /\ UNCHANGED mainvars

\* the header fgets: an empty file returns -1
SkipHeader ==
    /\ pc = "header"
    /\ \/ /\ ParseReturn(-1)
          /\ UNCHANGED net
       \/ /\ pc' = "line"
          /\ UNCHANGED <<src, nread, cur, net, errors, ret>>
    /\ UNCHANGED <<procs, pi, fi, pid, snap, obsL, obsC, attempted, feed>>
    /\ UNCHANGED mainvars

\* a bug: LISTEN is taken to be state 7
TcpListenerClose(l) == l.state = 7
\* state == 0x0A
TcpListener(l) == l.state = 10
\* state == 0x01
TcpEstablished(l) == l.state = 1
\* a bug: only the state decides
UdpListenerStateOnly(l) == l.state = 7
\* state == 0x07 || local_port > 0
UdpListener(l) == l.state = 7 \/ l.local_port > 0

\* a bug: the capacity test lets one entry too many in
ListenerRoomOffByOne(n) == n.listener_count <= MAX_LISTENERS
\* net->listener_count < MAX_LISTENERS, in parse_tcp_file
ListenerRoom(n) == n.listener_count < MAX_LISTENERS
\* net->connection_count < MAX_CONNECTIONS
ConnectionRoom(n) == n.connection_count < MAX_CONNECTIONS
\* net->listener_count < MAX_LISTENERS, in the loop test of parse_udp_file
UdpRoom(n) == n.listener_count < MAX_LISTENERS

\* the fgets of parse_tcp_file's while loop: the end of the file returns 0
TcpRead ==
    /\ pc = "line"
    /\ ~Sources[src].udp
    /\ \/ /\ ParseReturn(0)
          /\ UNCHANGED <<obsL, obsC>>
       \/ /\ nread < MaxLines
          /\ \E l \in feed :
               /\ cur' = l
               /\ obsL' = IF l.parsed /\ l.state = 10 THEN obsL + 1 ELSE obsL
               /\ obsC' = IF l.parsed /\ l.state = 1 THEN obsC + 1 ELSE obsC
          /\ nread' = nread + 1
          /\ pc' = "parse"
          /\ UNCHANGED <<src, errors, ret>>
    /\ UNCHANGED <<net, procs, pi, fi, pid, snap, attempted, feed>>
    /\ UNCHANGED mainvars

\* a bug: a listener or connection that finds no room is still totalled
TcpParseTotalsObserved ==
    /\ pc = "parse"
    /\ ~Sources[src].udp
    /\ IF cur.parsed
          /\ \/ TcpListener(cur) /\ ListenerRoom(net)
             \/ ~(TcpListener(cur) /\ ListenerRoom(net))
                /\ TcpEstablished(cur) /\ ConnectionRoom(net)
       THEN /\ pc' = "find"
            /\ UNCHANGED <<cur, net>>
       ELSE /\ pc' = "line"
            /\ cur' = NoLine
            /\ net' = IF cur.parsed /\ TcpListener(cur)
                      THEN [net EXCEPT
                              !.total_listening = @ + 1,
                              !.unusual_port_count =
                                  IF is_common_port(cur.local_port) = 0
                                  THEN @ + 1 ELSE @]
                      ELSE IF cur.parsed /\ TcpEstablished(cur)
                      THEN [net EXCEPT !.total_established = @ + 1]
                      ELSE net
    /\ UNCHANGED <<src, nread, errors, ret, procs, pi, fi, pid, snap,
                   obsL, obsC, attempted, feed>>
    /\ UNCHANGED mainvars

\* the body of parse_tcp_file's loop up to the call of find_pid_for_inode:
\* sscanf, then the two tests; a record that passes neither is dropped
TcpParse ==
    /\ pc = "parse"
    /\ ~Sources[src].udp
    /\ IF cur.parsed
          /\ \/ TcpListener(cur) /\ ListenerRoom(net)
             \/ ~(TcpListener(cur) /\ ListenerRoom(net))
                /\ TcpEstablished(cur) /\ ConnectionRoom(net)
       THEN /\ pc' = "find"
            /\ UNCHANGED cur
       ELSE /\ pc' = "line"
            /\ cur' = NoLine
    /\ UNCHANGED <<src, nread, net, errors, ret, procs, pi, fi, pid, snap,
                   obsL, obsC, attempted, feed>>
    /\ UNCHANGED mainvars

\* the loop test of parse_udp_file: fgets, then the capacity test; either
\* failing returns 0
UdpRead ==
    /\ pc = "line"
    /\ Sources[src].udp
    /\ \/ /\ ParseReturn(0)
          /\ UNCHANGED <<obsL, obsC>>
       \/ /\ nread < MaxLines
          /\ \E l \in feed :
               /\ obsL' = IF l.parsed /\ (l.state = 7 \/ l.local_port # 0)
                          THEN obsL + 1 ELSE obsL
               /\ IF UdpRoom(net)
                  THEN /\ cur' = l
                       /\ nread' = nread + 1
                       /\ pc' = "parse"
                       /\ UNCHANGED <<src, errors, ret>>
                  ELSE ParseReturn(0)
          /\ UNCHANGED obsC
    /\ UNCHANGED <<net, procs, pi, fi, pid, snap, attempted, feed>>
    /\ UNCHANGED mainvars

\* the body of parse_udp_file's loop up to the call of find_pid_for_inode
UdpParse ==
    /\ pc = "parse"
    /\ Sources[src].udp
    /\ IF cur.parsed /\ UdpListener(cur)
       THEN /\ pc' = "find"
            /\ UNCHANGED cur
       ELSE /\ pc' = "line"
            /\ cur' = NoLine
    /\ UNCHANGED <<src, nread, net, errors, ret, procs, pi, fi, pid, snap,
                   obsL, obsC, attempted, feed>>
    /\ UNCHANGED mainvars

\* --------------------------------------------------- find_pid_for_inode

\* opendir("/proc"): NULL returns 0
FindOpen ==
    /\ pc = "find"
    /\ snap' = procs
    /\ \/ /\ pid' = 0
          /\ pc' = "owner"
          /\ UNCHANGED pi
       \/ /\ pi' = 1
          /\ pc' = "readdir"
          /\ UNCHANGED pid
    /\ UNCHANGED <<src, nread, cur, net, errors, ret, procs, fi, obsL, obsC,
                   attempted, feed>>
    /\ UNCHANGED mainvars

\* a bug: every directory entry is taken for a process
IsPidDirAny(e) == TRUE
\* d_name[0] is a digit
IsPidDir(e) == e.numeric

\* the outer loop: readdir(proc_dir), the digit test, opendir of the fd
\* directory; the end of the directory returns 0
FindReadDir ==
    /\ pc = "readdir"
    /\ IF pi > Len(procs)
       THEN /\ pid' = 0
            /\ pc' = "owner"
            /\ UNCHANGED <<pi, fi>>
       ELSE IF procs[pi].alive /\ IsPidDir(procs[pi]) /\ procs[pi].fd_ok
       THEN /\ fi' = 1
            /\ pc' = "fd"
            /\ UNCHANGED <<pi, pid>>
       ELSE /\ pi' = pi + 1
            /\ UNCHANGED <<pc, fi, pid>>
    /\ UNCHANGED <<src, nread, cur, net, errors, ret, procs, snap, obsL, obsC,
                   attempted, feed>>
    /\ UNCHANGED mainvars

\* what readlink yields for descriptor j of entry i now (-1: it fails)
LinkTarget(i, j) == IF procs[i].alive THEN procs[i].fds[j] ELSE -1

\* len > 0 and strcmp(link_target, "socket:[<inode>]") == 0
LinkMatches(target, inode) == target > 0 /\ target = inode

\* the inner loop: readdir(fd_dir), readlink, strcmp
FindReadFd ==
    /\ pc = "fd"
    /\ IF fi > Len(procs[pi].fds)
       THEN /\ pi' = pi + 1
            /\ pc' = "readdir"
            /\ UNCHANGED <<fi, pid>>
       ELSE IF LinkMatches(LinkTarget(pi, fi), cur.inode)
       THEN /\ pid' = procs[pi].pid
            /\ pc' = "owner"
            /\ UNCHANGED <<pi, fi>>
       ELSE /\ fi' = fi + 1
            /\ UNCHANGED <<pc, pi, pid>>
    /\ UNCHANGED <<src, nread, cur, net, errors, ret, procs, snap, obsL, obsC,
                   attempted, feed>>
    /\ UNCHANGED mainvars

\* ------------------------------------------- storing the entry, its name

\* the /proc entry of process p
EntryOf(p) == CHOOSE i \in 1..Len(procs) : procs[i].numeric /\ procs[i].pid = p

\* the record in hand goes to listeners[] (else to connections[])
StoresListener == Sources[src].udp \/ TcpListener(cur)

\* the fields written to the slot before the owner is looked up
SlotOf(l, s) ==
    IF Sources[s].udp \/ TcpListener(l)
    THEN [protocol |-> ProtocolTag(s),
          local_addr |-> hex_to_ip(AddrHex, Sources[s].is_ipv6),
          local_port |-> l.local_port,
          state |-> IF Sources[s].udp THEN "LISTEN"
                    ELSE tcp_state_name(l.state)]
    ELSE [protocol |-> ProtocolTag(s),
          local_addr |-> hex_to_ip(AddrHex, Sources[s].is_ipv6),
          local_port |-> l.local_port,
          remote_addr |-> hex_to_ip(AddrHex, Sources[s].is_ipv6),
          remote_port |-> RemotePort,
          state |-> tcp_state_name(l.state)]

\* the unusual-port test, in the listener branches only
CountsUnusual(isListener, port) == isListener /\ is_common_port(port) = 0

\* the slot gets its pid and name; the counters move
StoreEntry(name) ==
    LET e == [f \in DOMAIN SlotOf(cur, src) \cup {"pid", "process_name"} |->
                IF f = "pid" THEN pid
                ELSE IF f = "process_name" THEN name
                ELSE SlotOf(cur, src)[f]]
    IN  /\ net' =
             IF StoresListener
             THEN [net EXCEPT
                     !.listeners = Append(@, e),
                     !.listener_count = @ + 1,
                     !.total_listening = @ + 1,
                     !.unusual_port_count =
                         IF CountsUnusual(TRUE, cur.local_port)
                         THEN @ + 1 ELSE @]
             ELSE [net EXCEPT
                     !.connections = Append(@, e),
                     !.connection_count = @ + 1,
                     !.total_established = @ + 1,
                     !.unusual_port_count =
                         IF CountsUnusual(FALSE, cur.local_port)
                         THEN @ + 1 ELSE @]
        /\ pc' = "line"
        /\ cur' = NoLine
        /\ pid' = 0
        /\ pi' = 0
        /\ fi' = 0
        /\ snap' = <<>>

\* the name get_process_name writes when fopen fails
UnknownName == "[unknown]"

\* back in the parser with the pid: no owner stores "[kernel]";
\* get_process_name: fopen of /proc/<pid>/comm, NULL stores "[unknown]"
OwnerResolved ==
    /\ pc = "owner"
    /\ IF pid > 0
       THEN IF procs[EntryOf(pid)].alive /\ procs[EntryOf(pid)].comm_ok
            THEN /\ pc' = "comm"
                 /\ UNCHANGED <<cur, net, pid, pi, fi, snap>>
            ELSE StoreEntry(UnknownName)
       ELSE StoreEntry("[kernel]")
    /\ UNCHANGED <<src, nread, errors, ret, procs, obsL, obsC, attempted, feed>>
    /\ UNCHANGED mainvars

\* the process_name bytes of a slot the probe has not written: zero since
\* the memset
UnwrittenName == ""

\* get_process_name after fopen: fgets and the newline strip; a failing
\* fgets writes nothing
ReadComm ==
    /\ pc = "comm"
    /\ IF procs[EntryOf(pid)].alive
       THEN StoreEntry(procs[EntryOf(pid)].comm)
       ELSE StoreEntry(UnwrittenName)
    /\ UNCHANGED <<src, nread, errors, ret, procs, obsL, obsC, attempted, feed>>
    /\ UNCHANGED mainvars

\* ------------------------------------------------- the rest of the system

Probing == pc \notin {"start", "done"}

\* a process exits while the probe runs
ProcExit ==
    /\ Probing
    /\ \E i \in 1..Len(procs) :
         /\ procs[i].numeric
         /\ procs[i].alive
         /\ procs' = [procs EXCEPT ![i].alive = FALSE]
    /\ UNCHANGED <<pc, src, nread, cur, net, errors, ret, pi, fi, pid, snap,
                   obsL, obsC, attempted, feed>>
    /\ UNCHANGED mainvars

\* a process closes a socket descriptor while the probe runs
CloseFd ==
    /\ Probing
    /\ \E i \in 1..Len(procs) : \E j \in 1..Len(procs[i].fds) :
         /\ procs[i].numeric
         /\ procs[i].alive
         /\ procs[i].fds[j] > 0
         /\ procs' = [procs EXCEPT ![i].fds[j] = -1]
    /\ UNCHANGED <<pc, src, nread, cur, net, errors, ret, pi, fi, pid, snap,
                   obsL, obsC, attempted, feed>>
    /\ UNCHANGED mainvars

ProbeStep ==
    \/ ProbeStart
    \/ OpenSource
    \/ SkipHeader
    \/ TcpRead
    \/ TcpParse
    \/ UdpRead
    \/ UdpParse
    \/ FindOpen
    \/ FindReadDir
    \/ FindReadFd
    \/ OwnerResolved
    \/ ReadComm

\* the probe against a /proc whose processes keep still
Next == ProbeStep

Spec == Init /\ [][Next]_vars

\* the probe against a /proc whose processes exit and close descriptors
InitRace == InitWith(RaceLines)

NextRace ==
    \/ ProbeStep
    \/ ProcExit
    \/ CloseFd

SpecRace == InitRace /\ [][NextRace]_vars

\* ------------------------------------------------------------------ main.c

\* the exit codes, as print_usage documents them
EXIT_OK == 0
EXIT_WARNINGS == 1
EXIT_CRITICAL == 2
EXIT_ERROR == 3

\* what a process can inherit for a signal across exec: the default
\* action, or the signal ignored (a caught signal is reset to the default)
Inherited == {"SIG_DFL", "SIG_IGN"}

\* main is entered: no option seen, no handler installed, the dispositions
\* as the parent left them; the build has fixed what signal() installs
InitMain ==
    /\ MainIdle
    /\ opt = NoOptions
    /\ disposition \in [Signals -> Inherited]
    /\ sysv_signal \in BOOLEAN
    /\ pc = "start"
    /\ src = 1
    /\ nread = 0
    /\ cur = NoLine
    /\ net = ZeroNet
    /\ errors = 0
    /\ ret = NotReturned
    /\ procs = <<>>
    /\ pi = 0
    /\ fi = 0
    /\ pid = 0
    /\ snap = <<>>
    /\ obsL = 0
    /\ obsC = 0
    /\ attempted = <<>>
    /\ feed = {}

\* the option loop and the choice of config files: -h prints the usage and
\* returns EXIT_OK, an option getopt_long rejects prints it and returns
\* EXIT_ERROR, anything else leaves a combination of -w, -n, -j and -q
ParseOptions ==
    /\ mpc = "getopt"
    /\ \/ /\ mpc' = "exit"
          /\ exit_status' = <<EXIT_OK>>
          /\ UNCHANGED opt
       \/ /\ mpc' = "exit"
          /\ exit_status' = <<EXIT_ERROR>>
          /\ UNCHANGED opt
       \/ /\ opt' \in [watch_mode : BOOLEAN, network_mode : BOOLEAN,
                       json_mode : BOOLEAN, quick_mode : BOOLEAN]
          /\ mpc' = "main"
          /\ UNCHANGED exit_status
    /\ UNCHANGED <<keep_running, fp, analysis, exit_code, worst_exit,
                   cycles, printed, slept, sig, seen, serialized>>
    /\ UNCHANGED sigvars
    /\ UNCHANGED probevars

\* main below the option loop: watch mode installs the handler for SIGINT,
\* one-shot mode calls run_analysis
MainStart ==
    /\ mpc = "main"
    /\ IF opt.watch_mode
       THEN /\ disposition' = [disposition EXCEPT !["SIGINT"] = "handler"]
            /\ mpc' = "sigterm"
       ELSE /\ mpc' = "capture"
            /\ UNCHANGED disposition
    /\ UNCHANGED <<opt, keep_running, fp, analysis, exit_code, worst_exit,
                   exit_status, cycles, printed, slept, sig, seen,
                   serialized, sysv_signal>>
    /\ UNCHANGED probevars

\* watch mode: the handler for SIGTERM, the banner, worst_exit = EXIT_OK
InstallSigterm ==
    /\ mpc = "sigterm"
    /\ disposition' = [disposition EXCEPT !["SIGTERM"] = "handler"]
    /\ worst_exit' = EXIT_OK
    /\ mpc' = "while"
    /\ UNCHANGED <<opt, keep_running, fp, analysis, exit_code,
                   exit_status, cycles, printed, slept, sig, seen,
                   serialized, sysv_signal>>
    /\ UNCHANGED probevars

\* while (keep_running): print_timestamp and the call of run_analysis, or
\* return worst_exit
WhileTest ==
    /\ mpc = "while"
    /\ IF keep_running # 0
       THEN /\ cycles < MaxCycles
            /\ cycles' = cycles + 1
            /\ mpc' = "capture"
            /\ UNCHANGED exit_status
       ELSE /\ mpc' = "exit"
            /\ exit_status' = <<worst_exit>>
            /\ UNCHANGED cycles
    /\ UNCHANGED <<opt, keep_running, fp, analysis, exit_code, worst_exit,
                   printed, slept, sig, seen, serialized>>
    /\ UNCHANGED sigvars
    /\ UNCHANGED probevars

\* what capture_fingerprint leaves in fp: its error count, and a network
\* part with nothing in it
capture_fingerprint == [probe_errors : 0..1, unusual_port_count : {0}]

\* run_analysis: capture_fingerprint and the warning
RunCapture ==
    /\ mpc = "capture"
    /\ fp' \in capture_fingerprint
    /\ mpc' = "probe"
    /\ UNCHANGED <<opt, keep_running, analysis, exit_code, worst_exit,
                   exit_status, cycles, printed, slept, sig, seen,
                   serialized>>
    /\ UNCHANGED sigvars
    /\ UNCHANGED probevars

\* run_analysis: if (network_mode) probe_network(&fp.network), by the
\* unusual-port count it leaves
RunProbe ==
    /\ mpc = "probe"
    /\ IF opt.network_mode
       THEN \E u \in 0..MaxUnusual :
                fp' = [fp EXCEPT !.unusual_port_count = u]
       ELSE UNCHANGED fp
    /\ mpc' = "analyze"
    /\ UNCHANGED <<opt, keep_running, analysis, exit_code, worst_exit,
                   exit_status, cycles, printed, slept, sig, seen,
                   serialized>>
    /\ UNCHANGED sigvars
    /\ UNCHANGED probevars

\* what analyze_fingerprint_quick can derive from f: the process and config
\* counts are those of the host, the unusual listeners those of the probe
analyze_fingerprint_quick(f) ==
    [zombie_process_count : 0..1, high_fd_process_count : {0, 5, 6},
     config_permission_issues : 0..1,
     unusual_listeners : {f.unusual_port_count}]

\* run_analysis: analyze_fingerprint_quick
RunAnalyze ==
    /\ mpc = "analyze"
    /\ analysis' \in analyze_fingerprint_quick(fp)
    /\ mpc' = "output"
    /\ UNCHANGED <<opt, keep_running, fp, exit_code, worst_exit,
                   exit_status, cycles, printed, slept, sig, seen,
                   serialized>>
    /\ UNCHANGED sigvars
    /\ UNCHANGED probevars

\* a bug: three unusual ports are critical already
ExitCodeFromThree(a) ==
    IF a.zombie_process_count > 0 \/ a.config_permission_issues > 0
       \/ a.unusual_listeners >= 3
    THEN EXIT_CRITICAL
    ELSE IF a.high_fd_process_count > 5 \/ a.unusual_listeners > 0
    THEN EXIT_WARNINGS
    ELSE EXIT_OK

\* the exit code calculation that ends run_analysis
ExitCode(a) ==
    IF a.zombie_process_count > 0 \/ a.config_permission_issues > 0
       \/ a.unusual_listeners > 3
    THEN EXIT_CRITICAL
    ELSE IF a.high_fd_process_count > 5 \/ a.unusual_listeners > 0
    THEN EXIT_WARNINGS
    ELSE EXIT_OK

\* run_analysis prints JSON: json_mode, or neither JSON nor quick mode
\* (the watch loop passes quick_mode || 1)
PrintsJson ==
    opt.json_mode \/ ~(opt.watch_mode \/ opt.quick_mode)

\* run_analysis from the output branches to its return; fingerprint_to_json
\* returning NULL returns EXIT_ERROR
RunOutput ==
    /\ mpc = "output"
    /\ \/ /\ PrintsJson
          /\ exit_code' = EXIT_ERROR
          /\ serialized' = FALSE
       \/ /\ exit_code' = ExitCode(analysis)
          /\ serialized' = TRUE
    /\ seen' = seen \cup {exit_code'}
    /\ IF opt.watch_mode
       THEN /\ mpc' = "status"
            /\ UNCHANGED exit_status
       ELSE /\ mpc' = "exit"
            /\ exit_status' = <<exit_code'>>
    /\ UNCHANGED <<opt, keep_running, fp, analysis, worst_exit, cycles,
                   printed, slept, sig>>
    /\ UNCHANGED sigvars
    /\ UNCHANGED probevars

\* if (exit_code > worst_exit) worst_exit = exit_code
WorstOf(worst, code) == IF code > worst THEN code ELSE worst

\* the watch loop after run_analysis: worst_exit and the status line
PrintStatus ==
    /\ mpc = "status"
    /\ worst_exit' = WorstOf(worst_exit, exit_code)
    /\ printed' = printed + 1
    /\ mpc' = "sleeptest"
    /\ UNCHANGED <<opt, keep_running, fp, analysis, exit_code, exit_status,
                   cycles, slept, sig, seen, serialized>>
    /\ UNCHANGED sigvars
    /\ UNCHANGED probevars

\* if (keep_running)
ShouldSleep(flag) == flag # 0

\* the watch loop: if (keep_running) sleep(interval)
SleepTest ==
    /\ mpc = "sleeptest"
    /\ IF ShouldSleep(keep_running)
       THEN /\ mpc' = "sleep"
            /\ slept' = slept + 1
       ELSE /\ mpc' = "while"
            /\ UNCHANGED slept
    /\ UNCHANGED <<opt, keep_running, fp, analysis, exit_code, worst_exit,
                   exit_status, cycles, printed, sig, seen, serialized>>
    /\ UNCHANGED sigvars
    /\ UNCHANGED probevars

\* sleep returns: the interval is over, or a signal cut it short
SleepReturn ==
    /\ mpc = "sleep"
    /\ mpc' = "while"
    /\ UNCHANGED <<opt, keep_running, fp, analysis, exit_code, worst_exit,
                   exit_status, cycles, printed, slept, sig, seen,
                   serialized>>
    /\ UNCHANGED sigvars
    /\ UNCHANGED probevars

\* run_analysis is between its call and its return
InFlight == mpc \in {"capture", "probe", "analyze", "output"}

\* the process has neither returned from main nor been terminated
Running == mpc \notin {"exit", "killed"}

\* signal_handler, run for a signal whose disposition is the handler; a
\* build with the resetting signal() has put the disposition back to
\* SIG_DFL before the handler runs
signal_handler(signum) ==
    /\ Running
    /\ disposition[signum] = "handler"
    /\ keep_running' = 0
    /\ sig' = IF sig = <<>> /\ InFlight THEN <<cycles, slept>> ELSE sig
    /\ disposition' = IF sysv_signal
                      THEN [disposition EXCEPT ![signum] = "SIG_DFL"]
                      ELSE disposition
    /\ UNCHANGED <<mpc, opt, fp, analysis, exit_code, worst_exit,
                   exit_status, cycles, printed, slept, seen, serialized,
                   sysv_signal>>
    /\ UNCHANGED probevars

\* a signal whose disposition is SIG_DFL: the process is terminated where
\* it stands and main never returns; one whose disposition is SIG_IGN
\* changes nothing and is no step
Terminated(signum) ==
    /\ Running
    /\ disposition[signum] = "SIG_DFL"
    /\ mpc' = "killed"
    /\ UNCHANGED <<opt, keep_running, fp, analysis, exit_code, worst_exit,
                   exit_status, cycles, printed, slept, sig, seen,
                   serialized>>
    /\ UNCHANGED sigvars
    /\ UNCHANGED probevars

HandlerRuns == \E signum \in Signals : signal_handler(signum)

ProcessKilled == \E signum \in Signals : Terminated(signum)

MainStep ==
    \/ ParseOptions
    \/ MainStart
    \/ InstallSigterm
    \/ WhileTest
    \/ RunCapture
    \/ RunProbe
    \/ RunAnalyze
    \/ RunOutput
    \/ PrintStatus
    \/ SleepTest
    \/ SleepReturn

NextMain ==
    \/ MainStep
    \/ HandlerRuns
    \/ ProcessKilled

SpecMain == InitMain /\ [][NextMain]_vars

\* main runs on whenever it has a step to take; signals come as they will
FairMain == SpecMain /\ WF_vars(MainStep)

\* ------------------------------------------------------------------ claims

Min(a, b) == IF a < b THEN a ELSE b

AllEntries ==
    {net.listeners[i] : i \in 1..Len(net.listeners)}
        \cup {net.connections[i] : i \in 1..Len(net.connections)}

\* C1: during and after the probe the stored listener count never exceeds
\* MAX_LISTENERS and the stored connection count never exceeds
\* MAX_CONNECTIONS (the arrays hold exactly that many entries), and when the
\* probe is done each equals min(records observed, capacity).
C1_CountsAreMinOfObserved ==
    /\ net.listener_count <= MAX_LISTENERS
    /\ net.connection_count <= MAX_CONNECTIONS
    /\ Len(net.listeners) = net.listener_count
    /\ Len(net.connections) = net.connection_count
    /\ pc = "done" =>
         /\ net.listener_count = Min(obsL, MAX_LISTENERS)
         /\ net.connection_count = Min(obsC, MAX_CONNECTIONS)

\* a finished probe that saw more listeners and more connections than fit
C1_Witness ==
    /\ pc = "done"
    /\ obsL > MAX_LISTENERS
    /\ obsC > MAX_CONNECTIONS
    /\ net.listener_count = MAX_LISTENERS
    /\ net.connection_count = MAX_CONNECTIONS

\* the sources are attempted once each, in program order
C2_Order ==
    /\ \E n \in 0..4 : attempted = [i \in 1..n |-> i]
    /\ pc = "done" => attempted = <<1, 2, 3, 4>>
    /\ pc \notin {"start", "done"} =>
         Len(attempted) = IF pc = "open" THEN src - 1 ELSE src

\* a step in which a source fails leaves the structure as it was and goes
\* on exactly as the end of an empty source does: to the next source, or to
\* Done after the fourth
C2_SkipStep ==
    errors' > errors =>
        /\ net' = net
        /\ nread' = 0
        /\ cur' = NoLine
        /\ IF src < 4
           THEN src' = src + 1 /\ pc' = "open"
           ELSE pc' = "done"

\* the longest fd directory of the process table
MaxFds ==
    CHOOSE n \in {Len(procs[i].fds) : i \in 1..Len(procs)} :
        \A i \in 1..Len(procs) : Len(procs[i].fds) <= n

\* steps find_pid_for_inode has left at most, from the top of its outer loop
\* at /proc entry i
ScanLeft(i) == (Len(procs) + 1 - i) * (MaxFds + 2) + MaxFds + 1

\* steps left at most for the record in hand
RecordLeft ==
    CASE pc = "line" -> 0
      [] pc = "comm" -> 1
      [] pc = "owner" -> 2
      [] pc = "fd" -> 3 + ScanLeft(pi) - fi
      [] pc = "readdir" -> 3 + ScanLeft(pi)
      [] pc = "find" -> 4 + ScanLeft(1)
      [] pc = "parse" -> 5 + ScanLeft(1)

\* steps left at most in the probe: 0 exactly when it is done
StepsLeft ==
    LET perLine == 6 + ScanLeft(1)
        perSource == MaxLines * perLine + 3
    IN  CASE pc = "done" -> 0
          [] pc = "start" -> 4 * perSource + 1
          [] pc = "open" -> (4 - src) * perSource + MaxLines * perLine + 3
          [] pc = "header" -> (4 - src) * perSource + MaxLines * perLine + 2
          [] OTHER -> (4 - src) * perSource
                        + (MaxLines - nread) * perLine + RecordLeft + 1

\* C2: the four sources are attempted exactly once each in the order TCP-v4,
\* TCP-v6, UDP-v4, UDP-v6; a source that fails is skipped with the
\* structure unchanged and the probe continues as after an empty source;
\* and the probe always reaches Done: before Done a step is always possible,
\* and every step leaves fewer steps to go.
C2_EverySourceAttempted ==
    /\ [](C2_Order /\ (pc # "done" => ENABLED Next))
    /\ [][C2_SkipStep /\ StepsLeft' < StepsLeft]_vars

\* a finished probe in which the first two sources failed and a later one
\* still contributed
C2_Witness ==
    /\ pc = "done"
    /\ errors = 2
    /\ net.listener_count > 0
    /\ net.listeners[1].protocol \in {"udp", "udp6"}

\* C3: when a source could not be read, probe_network hands its caller a
\* non-zero error indication.
C3_ErrorSurfaced == (pc = "done" /\ errors > 0) => ret # <<0>>

\* the entry the store step appends for the record in hand
C5_Stored(seq, seq2, tag, label) ==
    /\ Len(seq2) = Len(seq) + 1
    /\ \A i \in 1..Len(seq) : seq2[i] = seq[i]
    /\ seq2[Len(seq2)].protocol = tag
    /\ seq2[Len(seq2)].local_port = cur.local_port
    /\ seq2[Len(seq2)].state = label

InLookup(p) == p \in {"find", "readdir", "fd", "owner", "comm"}

\* what a step of parse_tcp_file may do with the record in hand
C5_TcpStep ==
    (~Sources[src].udp /\ pc \in {"parse", "find", "readdir", "fd", "owner", "comm"}
        /\ pc' # pc) =>
      IF pc = "parse"
      THEN /\ net' = net
           /\ (cur.parsed /\ cur.state = 10
                 /\ net.listener_count < MAX_LISTENERS) => pc' = "find"
           /\ (cur.parsed /\ cur.state = 1
                 /\ net.connection_count < MAX_CONNECTIONS) => pc' = "find"
           /\ (cur.parsed /\ cur.state \notin {1, 10}) => pc' = "line"
           /\ pc' = "find" => cur' = cur /\ cur.parsed /\ cur.state \in {1, 10}
      ELSE IF pc' = "line"
      THEN \/ /\ cur.state = 10
              /\ C5_Stored(net.listeners, net'.listeners,
                           IF Sources[src].is_ipv6 THEN "tcp6" ELSE "tcp",
                           "LISTEN")
              /\ net'.listener_count = net.listener_count + 1
              /\ net'.total_listening = net.total_listening + 1
              /\ net'.connections = net.connections
              /\ net'.connection_count = net.connection_count
              /\ net'.total_established = net.total_established
           \/ /\ cur.state = 1
              /\ C5_Stored(net.connections, net'.connections,
                           IF Sources[src].is_ipv6 THEN "tcp6" ELSE "tcp",
                           "ESTABLISHED")
              /\ net'.connection_count = net.connection_count + 1
              /\ net'.total_established = net.total_established + 1
              /\ net'.listeners = net.listeners
              /\ net'.listener_count = net.listener_count
              /\ net'.total_listening = net.total_listening
              /\ net'.unusual_port_count = net.unusual_port_count
      ELSE net' = net /\ cur' = cur /\ InLookup(pc')

\* C5: a parsed TCP record met while capacity remains adds exactly one
\* listener entry and no connection entry if its state is 10, exactly one
\* connection entry and no listener entry if its state is 1, and leaves the
\* structure with its counters unchanged otherwise.
C5_TcpClassification == [][C5_TcpStep]_vars

\* a LISTEN and an ESTABLISHED record, one from each TCP source, both stored
C5_Witness ==
    /\ src = 2
    /\ pc = "line"
    /\ nread = 1
    /\ net.listener_count = 1
    /\ net.connection_count = 1
    /\ obsL + obsC = 2

\* what a step of parse_udp_file may do with the record in hand
C6_UdpStep ==
    (Sources[src].udp /\ pc \in {"parse", "find", "readdir", "fd", "owner", "comm"}
        /\ pc' # pc) =>
      IF pc = "parse"
      THEN /\ net' = net
           /\ (cur.parsed /\ (cur.state = 7 \/ cur.local_port # 0))
                 => pc' = "find" /\ cur' = cur
           /\ (cur.parsed /\ cur.state # 7 /\ cur.local_port = 0)
                 => pc' = "line"
           /\ ~cur.parsed => pc' = "line"
      ELSE IF pc' = "line"
      THEN /\ C5_Stored(net.listeners, net'.listeners,
                        IF Sources[src].is_ipv6 THEN "udp6" ELSE "udp",
                        "LISTEN")
           /\ net'.listener_count = net.listener_count + 1
           /\ net'.connections = net.connections
           /\ net'.connection_count = net.connection_count
           /\ net'.total_established = net.total_established
      ELSE net' = net /\ cur' = cur /\ InLookup(pc')

\* C6: a parsed UDP record met while listener capacity remains is stored as
\* exactly one listener entry (udp or udp6, state label LISTEN) if its state
\* is 7 or its local port is not 0, never as a connection entry, and
\* otherwise leaves the structure unchanged.
C6_UdpClassification == [][C6_UdpStep]_vars

\* a UDP record with a state other than 7 stored for its port alone
C6_Witness ==
    /\ pc = "done"
    /\ net.listener_count = 1
    /\ net.listeners[1].protocol = "udp6"
    /\ net.listeners[1].local_port = 22
    /\ net.connection_count = 0

\* the well-known set of the port classifier
WellKnownPorts ==
    {22, 25, 53, 80, 110, 143, 443, 465, 587, 993, 995, 3306, 5432, 6379,
     8080, 8443, 27017}

UnusualByRule(port) == port \notin WellKnownPorts /\ port < 32768

\* C7: the unusual-port count is the number of stored listener entries
\* whose local port is neither in the well-known set nor >= 32768; it does
\* not move for connections and never exceeds the stored listener count.
C7_UnusualCountsListeners ==
    /\ net.unusual_port_count =
         Cardinality({i \in 1..Len(net.listeners) :
                        UnusualByRule(net.listeners[i].local_port)})
    /\ net.unusual_port_count <= net.listener_count

\* a listener on the first ephemeral port beside a connection on an
\* unusual port: neither is counted
C7_Witness ==
    /\ pc = "done"
    /\ net.listener_count = 1
    /\ net.listeners[1].local_port = 32768
    /\ net.connection_count = 1
    /\ net.connections[1].local_port = 9999
    /\ net.unusual_port_count = 0

\* the entries of table a lookup can resolve a descriptor of to the socket
OwnerIndexes(table, inode) ==
    {i \in 1..Len(table) :
        /\ table[i].numeric
        /\ table[i].alive
        /\ table[i].fd_ok
        /\ \E j \in 1..Len(table[i].fds) : table[i].fds[j] = inode}

\* the first of them in directory order, 0 if there is none
FirstOwner(table, inode) ==
    IF OwnerIndexes(table, inode) = {} THEN 0
    ELSE table[CHOOSE i \in OwnerIndexes(table, inode) :
                 \A k \in OwnerIndexes(table, inode) : i <= k].pid

\* what the running lookup enumerates: the directory as it stood at its
\* opendir, nothing if that opendir failed
Enumerated == IF pi = 0 THEN <<>> ELSE snap

\* the value find_pid_for_inode returned: the first owner when the process
\* table kept still during the scan, and in any case a process that held
\* the socket when the scan began, or 0
C8_Returned ==
    pc = "owner" =>
        /\ procs = snap => pid = FirstOwner(Enumerated, cur.inode)
        /\ pid = 0 \/ pid \in {snap[i].pid : i \in OwnerIndexes(snap, cur.inode)}

\* an entry without an owner is stored as kernel-owned
C8_KernelEntries ==
    \A e \in AllEntries : e.pid = 0 => e.process_name = "[kernel]"

\* the step after a lookup that found no owner stores the entry, with pid 0
\* and the "[kernel]" name
C8_StoreStep ==
    (pc = "owner" /\ pid = 0 /\ pc' # pc) =>
        /\ pc' = "line"
        /\ Len(net'.listeners) + Len(net'.connections)
             = Len(net.listeners) + Len(net.connections) + 1
        /\ LET e == IF Len(net'.listeners) > Len(net.listeners)
                    THEN net'.listeners[Len(net'.listeners)]
                    ELSE net'.connections[Len(net'.connections)]
           IN  e.pid = 0 /\ e.process_name = "[kernel]"

\* C8: find_pid_for_inode returns the first process in directory order
\* that has a descriptor resolving to the queried socket, 0 when none has;
\* whatever processes exit, close descriptors or deny access during the
\* scan, the outcome is such an owner or none, and an entry without owner
\* is still stored, with pid 0 and the "[kernel]" name.
C8_OwnerOrNone ==
    /\ [](C8_Returned /\ C8_KernelEntries)
    /\ [][C8_StoreStep]_vars

\* the scan passed a process that lost the socket under it and returned
\* the next owner in directory order
C8_Witness ==
    /\ pc = "owner"
    /\ pid = 600
    /\ procs # snap
    /\ FirstOwner(snap, cur.inode) = 500

\* the scan found no owner although a process held the socket when it began
C8_WitnessNone ==
    /\ pc = "owner"
    /\ pid = 0
    /\ pi > 0
    /\ FirstOwner(snap, cur.inode) # 0

\* the command name of process p
CommOf(p) ==
    procs[CHOOSE i \in 1..Len(procs) : procs[i].numeric /\ procs[i].pid = p].comm

\* C9: a stored entry with a resolved pid shows the command name read for
\* that pid, or "[unknown]" when the name could not be read; the display
\* name of a stored entry is never empty.
C9_NameResolved ==
    \A e \in AllEntries :
        /\ e.process_name # ""
        /\ e.pid > 0 => e.process_name \in {CommOf(e.pid), "[unknown]"}

\* the largest value run_analysis returned
WorstSeen == CHOOSE x \in seen : \A y \in seen : y <= x

\* after a signal that came during run_analysis: the process is not cut
\* off, no further cycle starts, the loop does not sleep again, and main
\* returns with the status line of every cycle printed and the worst exit
\* code seen
C4_AfterSignal ==
    sig # <<>> =>
        /\ mpc # "killed"
        /\ cycles = sig[1]
        /\ slept = sig[2]
        /\ mpc # "sleep"
        /\ mpc = "exit" =>
             /\ printed = cycles
             /\ exit_status = <<WorstSeen>>

\* C4: in watch mode a signal that clears keep_running while run_analysis
\* is in flight is observed only after the cycle: the cycle runs to its
\* status line, and the loop then ends without sleeping and without another
\* cycle, returning the worst exit code seen.
C4_SignalBetweenCycles ==
    /\ []C4_AfterSignal
    /\ (sig # <<>>) ~> (mpc = "exit")

\* run_analysis has returned and main has its value
Returned ==
    \/ mpc \in {"status", "sleeptest"}
    \/ mpc = "exit" /\ ~opt.watch_mode /\ seen # {}

\* C10: when the output was serialized, the exit code of a cycle is
\* critical iff zombies > 0 or config permission issues > 0 or the probe's
\* unusual-port count > 3, else warning iff high-FD processes > 5 or the
\* unusual-port count > 0, else OK; without the network probe the count
\* is 0.
C10_ExitCodeEscalation ==
    (Returned /\ serialized) =>
        /\ exit_code =
             IF \/ analysis.zombie_process_count > 0
                \/ analysis.config_permission_issues > 0
                \/ fp.unusual_port_count > 3
             THEN 2
             ELSE IF \/ analysis.high_fd_process_count > 5
                     \/ fp.unusual_port_count > 0
             THEN 1
             ELSE 0
        /\ ~opt.network_mode => fp.unusual_port_count = 0

\* three unusual ports and nothing else: a warning, not yet critical
C10_Witness ==
    /\ Returned
    /\ serialized
    /\ fp.unusual_port_count = 3
    /\ analysis.zombie_process_count = 0
    /\ analysis.config_permission_issues = 0
    /\ analysis.high_fd_process_count = 0
    /\ exit_code = 1

\* more than three unusual ports and nothing else: critical
C10_WitnessCritical ==
    /\ Returned
    /\ serialized
    /\ fp.unusual_port_count = 4
    /\ analysis.zombie_process_count = 0
    /\ analysis.config_permission_issues = 0
    /\ exit_code = 2

\* once a capacity is reached its total stands still, and with the listener
\* capacity the unusual-port count
C11_FullStep ==
    pc # "start" =>
        /\ net.listener_count = MAX_LISTENERS =>
             /\ net'.total_listening = net.total_listening
             /\ net'.unusual_port_count = net.unusual_port_count
        /\ net.connection_count = MAX_CONNECTIONS =>
             net'.total_established = net.total_established

\* C11: the running totals are incremented only when an entry is stored: in
\* every state of a probe total_listening is the stored listener count and
\* total_established the stored connection count, so once a capacity is
\* reached further observed listeners or connections change neither the
\* totals nor the unusual-port count.
C11_TotalsFollowStorage ==
    /\ [](/\ net.total_listening = net.listener_count
          /\ net.total_established = net.connection_count)
    /\ [][C11_FullStep]_vars

\* a finished probe that saw more listeners and more connections than fit:
\* both UDP tables held a listener, both TCP tables a connection, and the
\* totals stand at the capacities
C11_Witness ==
    /\ pc = "done"
    /\ attempted = <<1, 2, 3, 4>>
    /\ errors = 0
    /\ obsL > MAX_LISTENERS
    /\ obsC > MAX_CONNECTIONS
    /\ net.listeners[1].protocol = "udp"
    /\ net.total_listening = MAX_LISTENERS
    /\ net.total_established = MAX_CONNECTIONS
    /\ net.unusual_port_count = 0

====
